---- MODULE Spec2Model ----
(***************************************************************************)
(* Model of grade_comparator.py: compare_student_grades and its helpers.   *)
(*                                                                         *)
(* Floats are fixed-point integers in units of 0.001 (85.0 is 85000, the   *)
(* tiny-change limit 0.01 is 10, the decimal boundary 1.5 is 1500); a      *)
(* missing value (NaN) is a value of its own and every comparison with it  *)
(* is false, as in pandas. Binary rounding of the subtraction is not       *)
(* modelled. A header or a class name is a sequence of tokens, so that     *)
(* the regular expression, the substring tests and str.replace are         *)
(* computed and not assumed. Student keys are unique within one snapshot   *)
(* (the data model's join key).                                            *)
(***************************************************************************)
EXTENDS Integers, Sequences, FiniteSets, TLC

VARIABLES pc, run, file_path_1, file_path_2, df1, df2, df_old, df_new,
          date_new, output_file, old_graded_col, new_graded_col,
          merged_df, final_df, sheet, result, disk, joined, destination, prev

vars == <<pc, run, file_path_1, file_path_2, df1, df2, df_old, df_new,
          date_new, output_file, old_graded_col, new_graded_col,
          merged_df, final_df, sheet, result, disk, joined, destination, prev>>

\* ------------------------------------------------------------ bounds
MaxStudents == 2
MaxDate == 2

\* ------------------------------------------------- program constants
\* TINY_CHANGE_LIMIT = 0.01, in units of 0.001
TINY_CHANGE_LIMIT == 10
\* the upper end 1.5 of the "looks like a decimal" test, in units of 0.001
DecimalUpper == 1500
\* the factor of the rescaling
ScaleFactor == 100

\* ------------------------------------------------------------ floats
NaN == [nan |-> TRUE, v |-> 0]
Num(n) == [nan |-> FALSE, v |-> n]
FGt(a, b) == ~a.nan /\ ~b.nan /\ a.v > b.v
FLt(a, b) == ~a.nan /\ ~b.nan /\ a.v < b.v
FGe(a, b) == ~a.nan /\ ~b.nan /\ a.v >= b.v
FLe(a, b) == ~a.nan /\ ~b.nan /\ a.v <= b.v
FEq(a, b) == ~a.nan /\ ~b.nan /\ a.v = b.v
FSub(a, b) == IF a.nan \/ b.nan THEN NaN ELSE Num(a.v - b.v)
FAbs(a) == IF a.nan THEN NaN ELSE Num(IF a.v < 0 THEN 0 - a.v ELSE a.v)

\* Series.max() / Series.min(): missing values are skipped; NaN when none is left
SeriesMax(s) ==
    LET nums == {s[i].v : i \in {j \in 1..Len(s) : ~s[j].nan}}
    IN  IF nums = {} THEN NaN
        ELSE Num(CHOOSE m \in nums : \A n \in nums : n <= m)

SeriesMin(s) ==
    LET nums == {s[i].v : i \in {j \in 1..Len(s) : ~s[j].nan}}
    IN  IF nums = {} THEN NaN
        ELSE Num(CHOOSE m \in nums : \A n \in nums : m <= n)

Column(rows, f) == [i \in 1..Len(rows) |-> rows[i][f]]

\* ----------------------------------------------------------- headers
\* tokens: "Graded", "/", " " (white space), "9" (a digit), anything else a word
SkipSpaces(h, i) ==
    LET RECURSIVE skip(_)
        skip(j) == IF j <= Len(h) /\ h[j] = " " THEN skip(j + 1) ELSE j
    IN  skip(i)

\* re.search(r'Graded\s*/\s*\d+', str(col))
MatchesGradedCount(h) ==
    \E i \in 1..Len(h) :
        /\ h[i] = "Graded"
        /\ LET s == SkipSpaces(h, i + 1)
           IN  /\ s <= Len(h)
               /\ h[s] = "/"
               /\ LET d == SkipSpaces(h, s + 1)
                  IN  d <= Len(h) /\ h[d] = "9"

\* 'Graded' in str(col) and '/' in str(col)
ContainsGradedAndSlash(h) ==
    /\ \E i \in 1..Len(h) : h[i] = "Graded"
    /\ \E i \in 1..Len(h) : h[i] = "/"

\* the first index at which flags is TRUE, 0 for None (the for loop's first hit)
FirstTrue(flags) ==
    IF \E i \in 1..Len(flags) : flags[i]
    THEN CHOOSE i \in 1..Len(flags) : flags[i] /\ \A j \in 1..(i - 1) : ~flags[j]
    ELSE 0

CourseGrade == <<"Course grade">>
HasCourseGrade(cols) == \E i \in 1..Len(cols) : cols[i] = CourseGrade

\* ------------------------------------------------------------ loader
\* extract_date_from_sheet_name, then extract_date_from_file_path; 0 is no date
ExtractDate(file) == IF file.sheet # 0 THEN file.sheet ELSE file.path

\* .astype(str).str.replace('%', '')
StripPercent(c) == IF c.k = "num" THEN [c EXCEPT !.pct = FALSE] ELSE c

\* pd.to_numeric(errors='coerce'): text that is no number becomes missing
ToNumeric(c) == IF c.k = "num" /\ ~c.pct THEN Num(c.v) ELSE NaN

\* faulty variant: the boundary 1.5 itself is taken for a fraction
ScaleGradeInclusive(g) ==
    IF FGt(g, Num(0)) /\ FLe(g, Num(DecimalUpper)) THEN Num(g.v * ScaleFactor) ELSE g

\* is_decimal = (g > 0.0) & (g < 1.5); g * 100 where is_decimal
ScaleGrade(g) ==
    IF FGt(g, Num(0)) /\ FLt(g, Num(DecimalUpper)) THEN Num(g.v * ScaleFactor) ELSE g

CleanGrade(c) == ScaleGrade(ToNumeric(StripPercent(c)))

NoFrame == [date |-> 0, columns |-> <<>>, rows |-> <<>>]

\* load_and_clean_data: ok is FALSE when it raises (no date, no 'Course grade')
load_and_clean_data(file) ==
    LET date == ExtractDate(file)
    IN  IF date = 0 \/ ~HasCourseGrade(file.columns)
        THEN [ok |-> FALSE, df |-> NoFrame]
        ELSE [ok |-> TRUE,
              df |-> [date |-> date,
                      columns |-> file.columns,
                      rows |-> [i \in 1..Len(file.rows) |->
                                  [file.rows[i] EXCEPT !.grade = CleanGrade(@)]]]]

\* ------------------------------------------------- orderer, validator
\* the header loop of find_completed_assessment_count: index of the column, 0 for None
CountColumn(df) ==
    FirstTrue([i \in 1..Len(df.columns) |-> MatchesGradedCount(df.columns[i])])

\* find_completed_assessment_count: "none" (no header), "raise" (.iloc[0] of an
\* empty series), or the count of the first non-missing cell
find_completed_assessment_count(df) ==
    IF CountColumn(df) = 0 THEN [k |-> "none", n |-> 0]
    ELSE LET valid == SelectSeq(Column(df.rows, "graded"), LAMBDA c : c.k = "num")
         IN  IF Len(valid) = 0 THEN [k |-> "raise", n |-> 0]
             ELSE [k |-> "count", n |-> valid[1].v]

\* validate_comparison_order: "Raised", "False" or "True"; count_old is computed first
validate_comparison_order(old, new) ==
    LET count_old == find_completed_assessment_count(old)
        count_new == find_completed_assessment_count(new)
    IN  IF count_old.k = "raise" \/ count_new.k = "raise" THEN "Raised"
        ELSE IF count_old.k = "none" \/ count_new.k = "none" THEN "False"
        ELSE IF count_old.n > count_new.n THEN "False"
        ELSE "True"

\* faulty variant: the first argument is taken for the older snapshot
FirstIsOlder(d1, d2) == IF d1.date = d2.date THEN 0 ELSE 1

\* date1 < date2 / date2 < date1 / else: which frame is older, 0 when the dates are equal
OlderIndex(d1, d2) == IF d1.date < d2.date THEN 1 ELSE IF d2.date < d1.date THEN 2 ELSE 0

\* ------------------------------------------------------------- naming
\* class_name.replace('/', '-')
ReplaceSlash(s) == [i \in 1..Len(s) |-> IF s[i] = "/" THEN "-" ELSE s[i]]

NoName == [ok |-> FALSE, class |-> <<>>, date |-> 0]

\* class_name = df_new.iloc[0][df_new.columns[1]]; replace; the f-string.
\* ok is FALSE when it raises: no first row, or a cell that has no text replace
OutputFile(new, date) ==
    IF Len(new.rows) = 0 THEN NoName
    ELSE IF new.rows[1].class.k # "text" THEN NoName
    ELSE [ok |-> TRUE, class |-> ReplaceSlash(new.rows[1].class.s), date |-> date]

\* find_graded_col: index of the first header with 'Graded' and '/', 0 for None
find_graded_col(df) ==
    FirstTrue([i \in 1..Len(df.columns) |-> ContainsGradedAndSlash(df.columns[i])])

\* ------------------------------------------------------------- engine
\* pd.merge(old, new, on=key, how='inner'): the left frame's order, each left row
\* with every right row of its key; then the Grade Change column
MergeRows(old, new) ==
    LET RECURSIVE merge(_)
        merge(i) ==
            IF i > Len(old.rows) THEN <<>>
            ELSE LET l == old.rows[i]
                     right == SelectSeq(new.rows, LAMBDA r : r.key = l.key)
                 IN  [j \in 1..Len(right) |->
                        [key |-> l.key,
                         prev |-> l.grade,
                         cur |-> right[j].grade,
                         change |-> FSub(right[j].grade, l.grade)]]
                     \o merge(i + 1)
    IN  merge(1)

\* faulty variant: no highest-current-grade tier, the maximum change always wins
MostImprovedAlwaysMax(rows) ==
    LET max_change == SeriesMax(Column(rows, "change"))
    IN  {rows[i].key : i \in {j \in 1..Len(rows) : FEq(rows[j].change, max_change)}}

\* faulty variant: no winner by elimination when every row declined
MostImprovedNoElimination(rows) ==
    LET max_change == SeriesMax(Column(rows, "change"))
        not_significantly_worse ==
            SelectSeq(rows, LAMBDA r : FGe(r.change, Num(0 - TINY_CHANGE_LIMIT)))
    IN  IF FGt(max_change, Num(TINY_CHANGE_LIMIT))
        THEN {rows[i].key : i \in {j \in 1..Len(rows) : FEq(rows[j].change, max_change)}}
        ELSE IF Len(not_significantly_worse) # 0
        THEN LET max_current_grade == SeriesMax(Column(not_significantly_worse, "cur"))
             IN  {not_significantly_worse[i].key :
                    i \in {j \in 1..Len(not_significantly_worse) :
                             FEq(not_significantly_worse[j].cur, max_current_grade)}}
        ELSE {}

\* lines 194-208: the keys in most_improved_students
MostImprovedStudents(rows) ==
    LET max_change == SeriesMax(Column(rows, "change"))
        tiny == Num(TINY_CHANGE_LIMIT)
        not_significantly_worse ==
            SelectSeq(rows, LAMBDA r : FGe(r.change, Num(0 - TINY_CHANGE_LIMIT)))
    IN  IF FGt(max_change, tiny)
        THEN {rows[i].key : i \in {j \in 1..Len(rows) : FEq(rows[j].change, max_change)}}
        ELSE IF Len(not_significantly_worse) # 0
        THEN LET max_current_grade == SeriesMax(Column(not_significantly_worse, "cur"))
             IN  {not_significantly_worse[i].key :
                    i \in {j \in 1..Len(not_significantly_worse) :
                             FEq(not_significantly_worse[j].cur, max_current_grade)}}
        ELSE {rows[i].key : i \in {j \in 1..Len(rows) : FEq(rows[j].change, max_change)}}

\* faulty variant: max() where min() is meant
MostDeclinedFromMax(rows) ==
    LET max_change == SeriesMax(Column(rows, "change"))
    IN  {rows[i].key : i \in {j \in 1..Len(rows) : FEq(rows[j].change, max_change)}}

\* faulty variant: the tiny-change exemption of the most-improved rule applied here too
MostDeclinedBeyondTiny(rows) ==
    LET min_change == SeriesMin(Column(rows, "change"))
    IN  IF FLt(min_change, Num(0 - TINY_CHANGE_LIMIT))
        THEN {rows[i].key : i \in {j \in 1..Len(rows) : FEq(rows[j].change, min_change)}}
        ELSE {}

\* lines 215-217: the keys in most_declined_students
MostDeclinedStudents(rows) ==
    LET min_change == SeriesMin(Column(rows, "change"))
    IN  {rows[i].key : i \in {j \in 1..Len(rows) : FEq(rows[j].change, min_change)}}

\* lines 210-222: the two tag columns, by membership of the row's key
Classify(rows) ==
    [i \in 1..Len(rows) |->
        [key |-> rows[i].key, prev |-> rows[i].prev, cur |-> rows[i].cur,
         change |-> rows[i].change,
         improved |-> rows[i].key \in MostImprovedStudents(rows),
         declined |-> rows[i].key \in MostDeclinedStudents(rows)]]

\* ----------------------------------------------------------- renderer
\* faulty variant: the no-change rule placed before the biggest-drop rule
StyleCellNoChangeFirst(r) ==
    LET plain == [value |-> r.change, format |-> "General", fill |-> "none"]
        tiny == FLe(FAbs(r.change), Num(TINY_CHANGE_LIMIT))
    IN  IF r.change.nan THEN plain
        ELSE IF r.improved
        THEN IF tiny THEN [value |-> Num(0), format |-> "0.00", fill |-> "green"]
             ELSE [plain EXCEPT !.fill = "green"]
        ELSE IF tiny THEN [value |-> Num(0), format |-> "0.00", fill |-> "yellow"]
        ELSE IF r.declined THEN [plain EXCEPT !.fill = "purple"]
        ELSE IF FLt(r.change, Num(0)) THEN [plain EXCEPT !.fill = "red"]
        ELSE [plain EXCEPT !.fill = "cyan"]

\* lines 266-299: the Grade Change cell of one report row
StyleCell(r) ==
    LET plain == [value |-> r.change, format |-> "General", fill |-> "none"]
        tiny == FLe(FAbs(r.change), Num(TINY_CHANGE_LIMIT))
    IN  IF r.change.nan THEN plain
        ELSE IF r.improved
        THEN IF tiny THEN [value |-> Num(0), format |-> "0.00", fill |-> "green"]
             ELSE [plain EXCEPT !.fill = "green"]
        ELSE IF r.declined THEN [plain EXCEPT !.fill = "purple"]
        ELSE IF tiny THEN [value |-> Num(0), format |-> "0.00", fill |-> "yellow"]
        ELSE IF FLt(r.change, Num(0)) THEN [plain EXCEPT !.fill = "red"]
        ELSE IF FGt(r.change, Num(0)) THEN [plain EXCEPT !.fill = "cyan"]
        ELSE plain

StyleSheet(rows) == [i \in 1..Len(rows) |-> StyleCell(rows[i])]

\* ------------------------------------------------------------ inputs
Keys == 1..MaxStudents
Dates == 1..MaxDate

Text(s) == [k |-> "text", s |-> s]
Cell(v) == [k |-> "num", v |-> v, pct |-> FALSE]
Percent(v) == [k |-> "num", v |-> v, pct |-> TRUE]
Blank == [k |-> "blank"]
NotANumber == [k |-> "text"]

Graded20 == <<"Graded", " ", "/", "9">>
GradedLate == <<"Graded", "/", "Late">>
Total20 == <<"Total", " ", "/", "9">>

\* the columns after the three positional ones
ColumnLists ==
    { <<CourseGrade, Graded20>>,
      <<CourseGrade, GradedLate, Graded20>>,
      <<CourseGrade, GradedLate>>,
      <<CourseGrade, Total20>>,
      <<Graded20>> }

Row(key, class, grade, graded) ==
    [key |-> key, class |-> class, grade |-> grade, graded |-> graded]

RowLists ==
    { <<>>,
      <<Row(1, Text(<<"MTH">>), Cell(1500), Blank)>>,
      <<Row(1, Text(<<"MTH", "/", "1W">>), Cell(0), Cell(1))>>,
      <<Row(1, Cell(7), Cell(0 - 1000), Cell(2))>>,
      <<Row(1, Text(<<"MTH">>), Percent(500), Blank),
        Row(2, Text(<<"MTH">>), Cell(88000), Cell(2))>> }

DateSources ==
    {<<0, 0>>, <<0, MaxDate>>} \cup {<<d, 0>> : d \in Dates}

\* exports that differ in date source, columns, class cell and Graded cells
FlowFiles ==
    { [sheet |-> d[1], path |-> d[2], columns |-> c, rows |-> r] :
        d \in DateSources, c \in ColumnLists, r \in RowLists }

SortedSeq(S) ==
    LET RECURSIVE sorted(_)
        sorted(T) ==
            IF T = {} THEN <<>>
            ELSE LET m == CHOOSE x \in T : \A y \in T : x <= y
                 IN  <<m>> \o sorted(T \ {m})
    IN  sorted(S)

OlderCells == {Percent(85000), Cell(900), Blank}
NewerCells == {Cell(90000), Cell(85010), Cell(85005), Cell(84990), Cell(80000), NotANumber}

\* a well-formed export of the students S with the grade cells f
GradeFile(date, count, S, f) ==
    LET ks == SortedSeq(S)
    IN  [sheet |-> date, path |-> 0,
         columns |-> <<CourseGrade, Graded20>>,
         rows |-> [i \in 1..Len(ks) |->
                     Row(ks[i], Text(<<"MTH">>), f[ks[i]], Cell(count))]]

OlderFiles ==
    UNION { {GradeFile(1, 1, S, f) : f \in [S -> OlderCells]} : S \in SUBSET Keys }

NewerFiles ==
    UNION { {GradeFile(2, 2, S, f) : f \in [S -> NewerCells]} : S \in SUBSET Keys }

InputPairs == (FlowFiles \X FlowFiles) \cup (OlderFiles \X NewerFiles)

\* ----------------------------------------------------- state machine
NoFile == [sheet |-> 0, path |-> 0, columns |-> <<>>, rows |-> <<>>]

Outcome ==
    [result |-> result, older |-> df_old, newer |-> df_new,
     output_file |-> output_file, final_df |-> final_df, sheet |-> sheet,
     disk |-> disk]

NoOutcome ==
    [result |-> "None", older |-> NoFrame, newer |-> NoFrame,
     output_file |-> NoName, final_df |-> <<>>, sheet |-> <<>>,
     disk |-> "untouched"]

Enter(f1, f2) ==
    /\ pc' = "load"
    /\ file_path_1' = f1
    /\ file_path_2' = f2
    /\ df1' = NoFrame
    /\ df2' = NoFrame
    /\ df_old' = NoFrame
    /\ df_new' = NoFrame
    /\ date_new' = 0
    /\ output_file' = NoName
    /\ old_graded_col' = 0
    /\ new_graded_col' = 0
    /\ merged_df' = <<>>
    /\ final_df' = <<>>
    /\ sheet' = <<>>
    /\ result' = "None"
    /\ disk' = "untouched"
    /\ joined' = FALSE

Init ==
    /\ pc = "idle"
    /\ run = 0
    /\ file_path_1 = NoFile
    /\ file_path_2 = NoFile
    /\ df1 = NoFrame
    /\ df2 = NoFrame
    /\ df_old = NoFrame
    /\ df_new = NoFrame
    /\ date_new = 0
    /\ output_file = NoName
    /\ old_graded_col = 0
    /\ new_graded_col = 0
    /\ merged_df = <<>>
    /\ final_df = <<>>
    /\ sheet = <<>>
    /\ result = "None"
    /\ disk = "untouched"
    /\ joined = FALSE
    /\ destination = "unknown"
    /\ prev = NoOutcome

\* main: compare_student_grades(file_path_1, file_path_2)
Call ==
    /\ pc = "idle"
    /\ \E p \in InputPairs : Enter(p[1], p[2])
    /\ run' = 1
    /\ UNCHANGED <<destination, prev>>

\* a step that ends the call: return False, or an exception that leaves it
Leave(how) ==
    /\ result' = how
    /\ pc' = "done"

\* 1. Load Data and Extract Dates (try / except Exception: return False)
LoadData ==
    /\ pc = "load"
    /\ LET l1 == load_and_clean_data(file_path_1)
           l2 == load_and_clean_data(file_path_2)
       IN  IF l1.ok /\ l2.ok
           THEN /\ df1' = l1.df
                /\ df2' = l2.df
                /\ pc' = "order"
                /\ UNCHANGED result
           ELSE /\ Leave("False")
                /\ UNCHANGED <<df1, df2>>
    /\ UNCHANGED <<run, file_path_1, file_path_2, df_old, df_new, date_new,
                   output_file, old_graded_col, new_graded_col, merged_df,
                   final_df, sheet, disk, joined, destination, prev>>

\* 2. Determine Earlier/Later File
DetermineOrder ==
    /\ pc = "order"
    /\ LET o == OlderIndex(df1, df2)
       IN  IF o = 1
           THEN /\ df_old' = df1 /\ df_new' = df2 /\ date_new' = df2.date
                /\ pc' = "validate" /\ UNCHANGED result
           ELSE IF o = 2
           THEN /\ df_old' = df2 /\ df_new' = df1 /\ date_new' = df1.date
                /\ pc' = "validate" /\ UNCHANGED result
           ELSE /\ Leave("False")
                /\ UNCHANGED <<df_old, df_new, date_new>>
    /\ UNCHANGED <<run, file_path_1, file_path_2, df1, df2,
                   output_file, old_graded_col, new_graded_col, merged_df,
                   final_df, sheet, disk, joined, destination, prev>>

\* VALIDATION CHECK: if not validate_comparison_order(df_old, df_new): return False
Validate ==
    /\ pc = "validate"
    /\ LET v == validate_comparison_order(df_old, df_new)
       IN  IF v = "True" THEN pc' = "name" /\ UNCHANGED result
           ELSE Leave(v)
    /\ UNCHANGED <<run, file_path_1, file_path_2, df1, df2, df_old, df_new, date_new,
                   output_file, old_graded_col, new_graded_col, merged_df,
                   final_df, sheet, disk, joined, destination, prev>>

\* Dynamic Output File Naming
NameOutput ==
    /\ pc = "name"
    /\ LET f == OutputFile(df_new, date_new)
       IN  IF f.ok THEN output_file' = f /\ pc' = "columns" /\ UNCHANGED result
           ELSE Leave("Raised") /\ UNCHANGED output_file
    /\ UNCHANGED <<run, file_path_1, file_path_2, df1, df2, df_old, df_new, date_new,
                   old_graded_col, new_graded_col, merged_df,
                   final_df, sheet, disk, joined, destination, prev>>

\* the Graded column that is renamed 'Current Graded Assessments'
FindGradedCols ==
    /\ pc = "columns"
    /\ old_graded_col' = find_graded_col(df_old)
    /\ new_graded_col' = find_graded_col(df_new)
    /\ IF find_graded_col(df_old) = 0 \/ find_graded_col(df_new) = 0
       THEN Leave("False")
       ELSE pc' = "merge" /\ UNCHANGED result
    /\ UNCHANGED <<run, file_path_1, file_path_2, df1, df2, df_old, df_new, date_new,
                   output_file, merged_df, final_df, sheet, disk, joined, destination, prev>>

\* 3. Merge Data and Calculate Grade Change
MergeData ==
    /\ pc = "merge"
    /\ merged_df' = MergeRows(df_old, df_new)
    /\ joined' = TRUE
    /\ pc' = "classify"
    /\ UNCHANGED <<run, file_path_1, file_path_2, df1, df2, df_old, df_new, date_new,
                   output_file, old_graded_col, new_graded_col,
                   final_df, sheet, result, disk, destination, prev>>

\* 4. Most Improved Student(s) and Biggest Decline
ClassifyRows ==
    /\ pc = "classify"
    /\ final_df' = Classify(merged_df)
    /\ pc' = "render"
    /\ UNCHANGED <<run, file_path_1, file_path_2, df1, df2, df_old, df_new, date_new,
                   output_file, old_graded_col, new_graded_col, merged_df,
                   sheet, result, disk, joined, destination, prev>>

\* 5. Output to Formatted Excel, with the destination as the file system has it:
\* locked (PermissionError before anything is written), failing at wb.save (the
\* unformatted table of the first pass is on disk), or writable
SaveStates == {"ok", "locked", "save_error"}

\* the swapped call finds the destination as the first call found it
Destinations == IF destination = "unknown" THEN SaveStates ELSE {destination}

WriteReport ==
    /\ pc = "render"
    /\ \E env \in Destinations :
         /\ destination' = env
         /\ IF env = "ok"
            THEN /\ sheet' = StyleSheet(final_df)
                 /\ disk' = "styled"
                 /\ result' = "True"
            ELSE /\ sheet' = <<>>
                 /\ disk' = IF env = "locked" THEN "untouched" ELSE "plain"
                 /\ result' = "False"
    /\ pc' = "pause"
    /\ UNCHANGED <<run, file_path_1, file_path_2, df1, df2, df_old, df_new, date_new,
                   output_file, old_graded_col, new_graded_col, merged_df,
                   final_df, joined, prev>>

\* finally: input("Processing complete. Press Enter ...")
Pause ==
    /\ pc = "pause"
    /\ pc' = "done"
    /\ UNCHANGED <<run, file_path_1, file_path_2, df1, df2, df_old, df_new, date_new,
                   output_file, old_graded_col, new_graded_col, merged_df,
                   final_df, sheet, result, disk, joined, destination, prev>>

\* main's "run another comparison": the same two files, entered in the other order
CallSwapped ==
    /\ pc = "done"
    /\ run = 1
    /\ prev' = Outcome
    /\ Enter(file_path_2, file_path_1)
    /\ run' = 2
    /\ UNCHANGED destination

Next ==
    \/ Call
    \/ LoadData
    \/ DetermineOrder
    \/ Validate
    \/ NameOutput
    \/ FindGradedCols
    \/ MergeData
    \/ ClassifyRows
    \/ WriteReport
    \/ Pause
    \/ CallSwapped

Spec == Init /\ [][Next]_vars

\* ------------------------------------------------------------ claims
\* the call has classified the joined table
Classified == joined /\ pc \in {"render", "pause", "done"}

Rows == 1..Len(final_df)
Numeric == {i \in Rows : ~final_df[i].change.nan}
Change(i) == final_df[i].change.v
Current(i) == final_df[i].cur.v
AtMaximum(i) == i \in Numeric /\ \A j \in Numeric : Change(j) <= Change(i)
AtMinimum(i) == i \in Numeric /\ \A j \in Numeric : Change(i) <= Change(j)
SomeoneImproved == \E i \in Numeric : Change(i) > TINY_CHANGE_LIMIT
NotDeclined == {i \in Numeric : Change(i) >= 0 - TINY_CHANGE_LIMIT}
TopOfNotDeclined == {i \in NotDeclined : \A j \in NotDeclined : Current(j) <= Current(i)}
IsTiny(i) == i \in Numeric /\ Change(i) <= TINY_CHANGE_LIMIT /\ Change(i) >= 0 - TINY_CHANGE_LIMIT

\* the three-tier rule, read off the rule's statement
ThreeTier ==
    IF SomeoneImproved THEN {i \in Rows : AtMaximum(i)}
    ELSE IF NotDeclined # {} THEN TopOfNotDeclined
    ELSE {i \in Rows : AtMaximum(i)}

\* C1: in every non-empty joined table the rows tagged MOST IMPROVED are exactly the
\* rows the three-tier rule with TINY = 0.01 selects.
C1_MostImprovedIsThreeTier ==
    (Classified /\ Len(final_df) > 0) =>
        \A i \in Rows : final_df[i].improved <=> i \in ThreeTier

\* nobody improved by more than TINY, and the winner by highest current grade is a
\* row below the maximum change
C1_Witness ==
    /\ Classified
    /\ Len(final_df) > 1
    /\ ~SomeoneImproved
    /\ \E i \in Rows : final_df[i].improved /\ ~AtMaximum(i)
    /\ \E i \in Rows : ~final_df[i].improved /\ AtMaximum(i)

C3_BothFlagsOnlyWhenSingle ==
    Classified =>
        \A i \in Rows : (final_df[i].improved /\ final_df[i].declined) => Len(final_df) = 1

\* C3 amended: a row carries both flags only when all numeric grade changes are equal,
\* or when nobody improved by more than TINY and the winner is the highest current
\* grade among the rows that did not decline.
C3_BothFlagsOnlyWhenTiedOrFallback ==
    Classified =>
        \A i \in Rows :
            (final_df[i].improved /\ final_df[i].declined) =>
                \/ \A j \in Numeric, k \in Numeric : Change(j) = Change(k)
                \/ ~SomeoneImproved /\ NotDeclined # {}

\* two students with different changes, one of them flagged both ways, beside a table
\* shape where the flags are disjoint
C3_Witness ==
    /\ Classified
    /\ Len(final_df) = 2
    /\ \E i \in Rows : final_df[i].improved /\ final_df[i].declined
    /\ \E j \in Numeric, k \in Numeric : Change(j) # Change(k)

\* C4: the rows tagged BIGGEST DROP are exactly the rows at the minimum grade change,
\* whatever its sign.
C4_BiggestDropIsMinimum ==
    Classified => \A i \in Rows : final_df[i].declined <=> AtMinimum(i)

\* the minimum is positive and still flagged, the row above it is not
C4_Witness ==
    /\ Classified
    /\ \E i \in Rows : final_df[i].declined /\ Change(i) > 0
    /\ \E i \in Numeric : ~final_df[i].declined

\* what the two files say before the call looks at them
Loads(f) == load_and_clean_data(f).ok
BothLoad == Loads(file_path_1) /\ Loads(file_path_2)
SameDate == BothLoad /\ ExtractDate(file_path_1) = ExtractDate(file_path_2)
OlderFile == IF ExtractDate(file_path_1) < ExtractDate(file_path_2) THEN file_path_1 ELSE file_path_2
NewerFile == IF ExtractDate(file_path_1) < ExtractDate(file_path_2) THEN file_path_2 ELSE file_path_1
CountOf(f) == find_completed_assessment_count(load_and_clean_data(f).df)
ColumnMissing ==
    BothLoad /\ (CountOf(file_path_1).k = "none" \/ CountOf(file_path_2).k = "none")
CountsInverted ==
    /\ BothLoad
    /\ CountOf(OlderFile).k = "count"
    /\ CountOf(NewerFile).k = "count"
    /\ CountOf(OlderFile).n > CountOf(NewerFile).n

\* the report is written only after the pair is loaded, ordered and validated
WrittenOnlyWhenValid ==
    disk # "untouched" =>
        /\ BothLoad
        /\ ~SameDate
        /\ ~ColumnMissing
        /\ CountOf(OlderFile).k = "count"
        /\ CountOf(NewerFile).k = "count"
        /\ CountOf(OlderFile).n <= CountOf(NewerFile).n

\* C5: the report is written only for a loaded, strictly ordered, validated pair; and a
\* call with equal dates, inverted counts or a missing Graded column returns failure,
\* with no join and no output file touched.
C5_RejectedPairReturnsFailure ==
    /\ WrittenOnlyWhenValid
    /\ (pc = "done" /\ (SameDate \/ CountsInverted \/ ColumnMissing)) =>
           (result = "False" /\ ~joined /\ disk = "untouched")

\* C6: the call with its two arguments swapped ends as the first call did: the same
\* result, older and newer snapshot, output file name, report rows, flags and styling.
C6_SwapSameOutcome ==
    (pc = "done" /\ run = 2) => Outcome = prev

\* a report was written by the swapped call, whose first argument is the newer file
C6_Witness ==
    /\ pc = "done"
    /\ run = 2
    /\ result = "True"
    /\ Len(final_df) = 2
    /\ df_old = df2
    /\ df1.date > df2.date

\* C7: whatever fails, the call returns a failure value; no exception leaves it.
C7_NoExceptionEscapes ==
    pc = "done" => result \in {"True", "False"}

\* the report is on disk with its styling
Rendered == disk = "styled" /\ pc \in {"pause", "done"}

\* C8 as stated: a row with |grade change| <= TINY is stored as 0.00 in two-decimal
\* format, light yellow, or light green when it is most improved.
C8_TinyRowYellowOrGreen ==
    Rendered =>
        \A i \in Rows :
            IsTiny(i) =>
                sheet[i] = [value |-> Num(0), format |-> "0.00",
                            fill |-> IF final_df[i].improved THEN "green" ELSE "yellow"]

\* C8 amended: such a row is 0.00 and light green when it is most improved, 0.00 and
\* light yellow when it carries neither flag, and light purple with its value and
\* format left alone when it is the biggest drop and not most improved.
C8_TinyRowByPriority ==
    Rendered =>
        \A i \in Rows :
            IsTiny(i) =>
                sheet[i] =
                    IF final_df[i].improved
                    THEN [value |-> Num(0), format |-> "0.00", fill |-> "green"]
                    ELSE IF final_df[i].declined
                    THEN [value |-> final_df[i].change, format |-> "General",
                          fill |-> "purple"]
                    ELSE [value |-> Num(0), format |-> "0.00", fill |-> "yellow"]

\* a tiny non-zero change that is the biggest drop, rendered purple
C8_Witness ==
    /\ Rendered
    /\ \E i \in Rows :
         /\ IsTiny(i)
         /\ Change(i) # 0
         /\ final_df[i].declined
         /\ ~final_df[i].improved
         /\ sheet[i].fill = "purple"

\* what the loader is to make of one raw 'Course grade' cell
Expected(c) ==
    IF c.k # "num" THEN NaN
    ELSE IF 0 < c.v /\ c.v < DecimalUpper THEN Num(c.v * ScaleFactor)
    ELSE Num(c.v)

LoadedAs(file, df) ==
    /\ Len(df.rows) = Len(file.rows)
    /\ \A i \in 1..Len(file.rows) : df.rows[i].grade = Expected(file.rows[i].grade)

\* C9: every parsed grade v with 0 < v < 1.5 is loaded as v*100, every other parsed
\* grade unchanged, each on its own; a missing grade stays missing.
C9_ScalePerValue ==
    (pc \notin {"idle", "load"} /\ df1.date # 0) =>
        (LoadedAs(file_path_1, df1) /\ LoadedAs(file_path_2, df2))

\* one column with a scaled and an unscaled value, the other with 1.5 left as it is
C9_Witness ==
    /\ pc = "order"
    /\ \E i \in 1..Len(df1.rows) :
         /\ file_path_1.rows[i].grade.k = "num"
         /\ df1.rows[i].grade.v = file_path_1.rows[i].grade.v * ScaleFactor
         /\ df1.rows[i].grade.v # 0
    /\ \E i \in 1..Len(df1.rows) :
         /\ file_path_1.rows[i].grade.k = "num"
         /\ df1.rows[i].grade.v = file_path_1.rows[i].grade.v
         /\ df1.rows[i].grade.v # 0
    /\ \E i \in 1..Len(df2.rows) :
         /\ file_path_2.rows[i].grade.k = "num"
         /\ file_path_2.rows[i].grade.v = DecimalUpper
         /\ df2.rows[i].grade.v = DecimalUpper

\* C10: the column validated as the completed-assessment count is the column reported
\* as 'Current Graded Assessments', and after a passed validation the second search
\* finds a column in both snapshots.
C10_SameGradedColumn ==
    /\ pc \in {"merge", "classify", "render", "pause"} =>
           new_graded_col = CountColumn(df_new)
    /\ (pc = "done" /\ output_file.ok) => (old_graded_col # 0 /\ new_graded_col # 0)

====
